---------------------------- MODULE Spec2Model ----------------------------
(***************************************************************************)
(* Regional scoring and rollout planning engine of t2a:                    *)
(*   src/src/analyzers/regional_scorer.py  (RegionalScorer)                *)
(*   src/src/planners/rollout_planner.py   (RolloutPlanner)                *)
(*                                                                         *)
(* Both classes are stateless: every public method is a function of its    *)
(* arguments (create_rollout_plan also reads the wall clock).  The state   *)
(* of the model is one call on the objects: its arguments, and what it     *)
(* returned or raised once it has run.                                     *)
(*                                                                         *)
(* Numbers.  Python floats are modelled as exact rationals [n, d] in       *)
(* lowest terms with d > 0; round(x, k) is Python's round-half-even to k   *)
(* decimals.  Binary rounding error (about 1e-14 here) is not modelled,    *)
(* so the input grids avoid values that sit exactly on a rounding tie or   *)
(* exactly on a threshold only through float error.                        *)
(***************************************************************************)
EXTENDS Integers, Sequences, FiniteSets, TLC

VARIABLES call, result

vars == <<call, result>>

-----------------------------------------------------------------------------
(* Exact rational arithmetic standing for Python float arithmetic.         *)

Abs(x) == IF x < 0 THEN -x ELSE x

RECURSIVE GCD(_, _)
GCD(a, b) == IF b = 0 THEN a ELSE GCD(b, a % b)

Rat(n, d) ==
    LET g == GCD(Abs(n), Abs(d))
        s == IF d < 0 THEN -1 ELSE 1
    IN  [n |-> (s * n) \div g, d |-> (s * d) \div g]

I(k) == [n |-> k, d |-> 1]

RAdd(a, b) ==
    LET g == GCD(a.d, b.d)
    IN  Rat(a.n * (b.d \div g) + b.n * (a.d \div g), (a.d \div g) * b.d)

RMul(a, b) ==
    LET x == Rat(a.n, b.d)
        y == Rat(b.n, a.d)
    IN  [n |-> x.n * y.n, d |-> x.d * y.d]

RDiv(a, b) == RMul(a, Rat(b.d, b.n))

\* integer parts first, then the fractional parts cross-multiplied
RLt(a, b) ==
    IF a.n \div a.d # b.n \div b.d THEN a.n \div a.d < b.n \div b.d
    ELSE (a.n % a.d) * b.d < (b.n % b.d) * a.d

RLe(a, b) == ~RLt(b, a)

RGt(a, b) == RLt(b, a)

RGe(a, b) == RLe(b, a)

RECURSIVE RSum(_)
RSum(s) == IF s = <<>> THEN I(0) ELSE RAdd(Head(s), RSum(Tail(s)))

RECURSIVE Pow10(_)
Pow10(k) == IF k = 0 THEN 1 ELSE 10 * Pow10(k - 1)

\* nearest integer to num/den (den > 0), ties to the even neighbour
RoundHalfEven(num, den) ==
    LET q == num \div den
        r == num % den
    IN  IF 2 * r < den THEN q
        ELSE IF 2 * r > den THEN q + 1
        ELSE IF q % 2 = 0 THEN q ELSE q + 1

\* Python round(x, k): the multiple of 10^-k nearest to x
Round(x, k) ==
    LET q == x.n \div x.d
        r == x.n % x.d
    IN  Rat(q * Pow10(k) + RoundHalfEven(r * Pow10(k), x.d), Pow10(k))

\* a call either returns a value or raises an exception
Return(v) == [status |-> "return", value |-> v]

Raise(e) == [status |-> "raise", exc |-> e]

\* dict.get(key, default)
Get(d, key, default) == IF key \in DOMAIN d THEN d[key] ELSE default

\* is x an element of the list s
InList(x, s) == \E i \in 1..Len(s) : s[i] = x

-----------------------------------------------------------------------------
(* RegionalScorer: static tables                                           *)

POPULATION_DATA ==
    [c \in {"US", "CN", "IN", "ID", "PK", "BR", "NG", "BD", "RU", "MX",
            "JP", "ET", "PH", "EG", "VN", "CD", "TR", "IR", "DE", "TH",
            "GB", "FR", "IT", "ZA", "TZ", "MM", "KR", "CO", "ES", "KE",
            "AR", "UA", "DZ", "SD", "UG", "CA", "PL", "MA", "SA", "AU",
            "NL", "BE", "SE", "CH", "AT"} |->
        CASE c = "US" -> 331 [] c = "CN" -> 1411 [] c = "IN" -> 1380
          [] c = "ID" -> 273 [] c = "PK" -> 220 [] c = "BR" -> 212
          [] c = "NG" -> 206 [] c = "BD" -> 164 [] c = "RU" -> 146
          [] c = "MX" -> 128 [] c = "JP" -> 126 [] c = "ET" -> 115
          [] c = "PH" -> 109 [] c = "EG" -> 102 [] c = "VN" -> 97
          [] c = "CD" -> 89 [] c = "TR" -> 84 [] c = "IR" -> 83
          [] c = "DE" -> 83 [] c = "TH" -> 70 [] c = "GB" -> 68
          [] c = "FR" -> 65 [] c = "IT" -> 60 [] c = "ZA" -> 59
          [] c = "TZ" -> 59 [] c = "MM" -> 54 [] c = "KR" -> 52
          [] c = "CO" -> 51 [] c = "ES" -> 47 [] c = "KE" -> 53
          [] c = "AR" -> 45 [] c = "UA" -> 44 [] c = "DZ" -> 43
          [] c = "SD" -> 43 [] c = "UG" -> 46 [] c = "CA" -> 38
          [] c = "PL" -> 38 [] c = "MA" -> 37 [] c = "SA" -> 35
          [] c = "AU" -> 26 [] c = "NL" -> 17 [] c = "BE" -> 12
          [] c = "SE" -> 10 [] c = "CH" -> 9 [] c = "AT" -> 9]

\* dict in insertion order: <<tier name, region list>>
BOX_OFFICE_TIERS ==
    << <<"Tier 1", <<"US", "CN">> >>,
       <<"Tier 2", <<"GB", "JP", "KR", "FR", "DE", "AU">> >>,
       <<"Tier 3", <<"IN", "BR", "MX", "IT", "ES", "RU", "CA">> >>,
       <<"Emerging", <<"ID", "TR", "SA", "TH", "PH", "VN">> >> >>

LANGUAGE_REGIONS ==
    << <<"English", <<"US", "GB", "CA", "AU", "NZ", "IE">> >>,
       <<"Spanish", <<"ES", "MX", "AR", "CO", "CL", "PE">> >>,
       <<"French", <<"FR", "CA", "BE", "CH", "MA", "DZ">> >>,
       <<"German", <<"DE", "AT", "CH">> >>,
       <<"Portuguese", <<"BR", "PT">> >>,
       <<"Mandarin", <<"CN", "TW", "SG">> >>,
       <<"Hindi", <<"IN">> >>,
       <<"Japanese", <<"JP">> >>,
       <<"Korean", <<"KR">> >>,
       <<"Arabic", <<"SA", "EG", "AE", "MA", "DZ">> >> >>

-----------------------------------------------------------------------------
(* RegionalScorer.score_region and its helpers                             *)

\* first tier, in table order, whose list holds the region; else 'Other'
_get_market_tier(region_code) ==
    LET hits == {i \in 1..Len(BOX_OFFICE_TIERS) :
                    InList(region_code, BOX_OFFICE_TIERS[i][2])}
    IN  IF hits = {} THEN "Other"
        ELSE BOX_OFFICE_TIERS[CHOOSE i \in hits : \A j \in hits : i <= j][1]

_get_tier_from_score(score) ==
    IF RGe(score, I(80)) THEN "A"
    ELSE IF RGe(score, I(65)) THEN "B"
    ELSE IF RGe(score, I(50)) THEN "C"
    ELSE "D"

\* the growth rule tried last, after the two score rules
_generate_region_recommendation_GrowthLast(score, market_tier, growth_rate) ==
    IF RGe(score, I(80)) THEN "Primary target - allocate 25-35% of budget"
    ELSE IF RGe(score, I(65)) /\ market_tier \in {"Tier 1", "Tier 2"}
        THEN "Secondary target - allocate 10-20% of budget"
    ELSE IF RGe(score, I(50)) THEN "Standard rollout - organic + targeted ads"
    ELSE IF RGt(growth_rate, Rat(2, 10))
        THEN "Emerging opportunity - test with 5-10% budget"
    ELSE "Lower priority - consider later phase"

_generate_region_recommendation(score, market_tier, growth_rate) ==
    IF RGe(score, I(80)) THEN "Primary target - allocate 25-35% of budget"
    ELSE IF RGe(score, I(65)) /\ market_tier \in {"Tier 1", "Tier 2"}
        THEN "Secondary target - allocate 10-20% of budget"
    ELSE IF RGt(growth_rate, Rat(2, 10))
        THEN "Emerging opportunity - test with 5-10% budget"
    ELSE IF RGe(score, I(50)) THEN "Standard rollout - organic + targeted ads"
    ELSE "Lower priority - consider later phase"

\* market size step function, before the tier boost
SizePoints(population) ==
    IF population > 200 THEN 20
    ELSE IF population > 100 THEN 18
    ELSE IF population > 50 THEN 15
    ELSE IF population > 20 THEN 12
    ELSE 8

\* boost for tier 1/2 markets
TierBoost(tier) ==
    IF tier = "Tier 1" THEN Rat(12, 10)
    ELSE IF tier = "Tier 2" THEN Rat(11, 10)
    ELSE I(1)

\* the 0.15 step taken at 0.1
GrowthPoints_StepAtTenth(growth_rate) ==
    IF RGt(growth_rate, Rat(3, 10)) THEN 20
    ELSE IF RGt(growth_rate, Rat(1, 10)) THEN 15
    ELSE IF RGt(growth_rate, Rat(5, 100)) THEN 10
    ELSE IF RGt(growth_rate, I(0)) THEN 5
    ELSE 0

GrowthPoints(growth_rate) ==
    IF RGt(growth_rate, Rat(3, 10)) THEN 20
    ELSE IF RGt(growth_rate, Rat(15, 100)) THEN 15
    ELSE IF RGt(growth_rate, Rat(5, 100)) THEN 10
    ELSE IF RGt(growth_rate, I(0)) THEN 5
    ELSE 0

\* custom_factors is the list of the mapping's values; None and {} are <<>>
score_region(region_code, interest_score, engagement_rate, growth_rate, sentiment_score, custom_factors) ==
    LET interest_points == RMul(RDiv(interest_score, I(100)), I(30))
        population == Get(POPULATION_DATA, region_code, 10)
        tier == _get_market_tier(region_code)
        size_points == RMul(I(SizePoints(population)), TierBoost(tier))
        engagement_points == RMul(engagement_rate, I(15))
        growth_points == GrowthPoints(growth_rate)
        sentiment_points == RMul(sentiment_score, I(15))
        has_custom == custom_factors # <<>>
        custom_total == RSum(custom_factors)
        score == RSum(<<interest_points, size_points, engagement_points,
                        I(growth_points), sentiment_points,
                        IF has_custom THEN custom_total ELSE I(0)>>)
        base == [interest |-> Round(interest_points, 2),
                 market_size |-> Round(size_points, 2),
                 engagement |-> Round(engagement_points, 2),
                 growth |-> I(growth_points),
                 sentiment |-> Round(sentiment_points, 2)]
        breakdown == IF has_custom
                        THEN base @@ [custom |-> Round(custom_total, 2)]
                        ELSE base
        max_possible == RAdd(I(100), IF has_custom THEN custom_total ELSE I(0))
    IN  IF max_possible.n = 0 THEN Raise("ZeroDivisionError")
        ELSE LET normalized_score == RMul(RDiv(score, max_possible), I(100))
             IN  Return([region |-> region_code,
                         total_score |-> Round(normalized_score, 2),
                         raw_score |-> Round(score, 2),
                         breakdown |-> breakdown,
                         tier |-> _get_tier_from_score(normalized_score),
                         market_tier |-> tier,
                         population_millions |-> population,
                         recommendation |-> _generate_region_recommendation(
                             normalized_score, tier, growth_rate)])

-----------------------------------------------------------------------------
(* RegionalScorer.compare_regions and its helpers                          *)

\* list.sort / sorted, which are stable: before[i][j] says that s[i] sorts
\* strictly before s[j].  The element at index i lands after every element
\* that sorts before it and after the equal elements that precede it in s.
StableSort(s, before) ==
    LET n == Len(s)
        pos(i) == 1 + Cardinality({j \in 1..n : before[j][i]})
                    + Cardinality({j \in 1..(i - 1) : ~before[j][i] /\ ~before[i][j]})
    IN  [p \in 1..n |-> s[CHOOSE i \in 1..n : pos(i) = p]]

\* the order of a sort on key(x) with reverse=True, keys being numbers
Descending(keys) ==
    [i \in 1..Len(keys) |-> [j \in 1..Len(keys) |-> RGt(keys[i], keys[j])]]

\* s[:k]
Take(s, k) == SubSeq(s, 1, IF Len(s) < k THEN Len(s) ELSE k)

\* [r['region'] for r in s]
RegionsOf(s) == [i \in 1..Len(s) |-> s[i].region]

\* [r for r in s if r['tier'] == t]
OfTier(s, t) == SelectSeq(s, LAMBDA r : r.tier = t)

\* a recommendation line: its fixed text and what is formatted into it
Line(text, regions, count) == [text |-> text, regions |-> regions, count |-> count]

_language_grouping_recommendation(scored_regions) ==
    LET region_codes == RegionsOf(scored_regions)
        n == Len(LANGUAGE_REGIONS)
        cov(i) == Len(SelectSeq(LANGUAGE_REGIONS[i][2],
                                LAMBDA r : InList(r, region_codes)))
        covered == {i \in 1..n : cov(i) > 0}
    IN  IF covered # {}
        THEN LET top == CHOOSE i \in covered :
                            /\ \A j \in covered : cov(j) <= cov(i)
                            /\ \A j \in covered : j < i => cov(j) < cov(i)
             IN  Line("Localization priority", <<LANGUAGE_REGIONS[top][1]>>, cov(top))
        ELSE Line("Consider multi-language approach", <<>>, 0)

\* the focus line naming every A-tier region
StrategyLines_AllATier(scored_regions) ==
    LET tier_a == OfTier(scored_regions, "A")
        tier_b == OfTier(scored_regions, "B")
        growth_markets == SelectSeq(scored_regions,
                            LAMBDA r : RGt(r.breakdown.growth, I(15)))
    IN  (IF tier_a # <<>>
           THEN <<Line("Phase 1 (Week 1-2): Focus on", RegionsOf(tier_a), 0)>>
           ELSE <<>>)
        \o (IF tier_b # <<>>
              THEN <<Line("Phase 2 (Week 3-4): Expand to secondary markets", <<>>, Len(tier_b))>>
              ELSE <<>>)
        \o (IF growth_markets # <<>>
              THEN <<Line("Monitor high-growth markets", Take(RegionsOf(growth_markets), 3), 0)>>
              ELSE <<>>)
        \o <<_language_grouping_recommendation(scored_regions)>>

\* the lines appended after the empty check
StrategyLines(scored_regions) ==
    LET tier_a == OfTier(scored_regions, "A")
        tier_b == OfTier(scored_regions, "B")
        growth_markets == SelectSeq(scored_regions,
                            LAMBDA r : RGt(r.breakdown.growth, I(15)))
    IN  (IF tier_a # <<>>
           THEN <<Line("Phase 1 (Week 1-2): Focus on", Take(RegionsOf(tier_a), 3), 0)>>
           ELSE <<>>)
        \o (IF tier_b # <<>>
              THEN <<Line("Phase 2 (Week 3-4): Expand to secondary markets", <<>>, Len(tier_b))>>
              ELSE <<>>)
        \o (IF growth_markets # <<>>
              THEN <<Line("Monitor high-growth markets", Take(RegionsOf(growth_markets), 3), 0)>>
              ELSE <<>>)
        \o <<_language_grouping_recommendation(scored_regions)>>

\* without the early return on an empty list
_generate_rollout_strategy_NoEmptyCheck(scored_regions) ==
    StrategyLines(scored_regions)

_generate_rollout_strategy(scored_regions) ==
    IF scored_regions = <<>> THEN <<>> ELSE StrategyLines(scored_regions)

\* the share rounded to a whole percent
SuggestedBudgetPct_Whole(score, total_score) ==
    Round(IF RGt(total_score, I(0))
            THEN RMul(RDiv(score, total_score), I(100))
            ELSE I(0), 0)

\* the share guarded against a zero sum only
SuggestedBudgetPct_ZeroGuard(score, total_score) ==
    Round(IF total_score # I(0)
            THEN RMul(RDiv(score, total_score), I(100))
            ELSE I(0), 1)

\* the share of the summed score, as a percentage with one decimal
SuggestedBudgetPct(score, total_score) ==
    Round(IF RGt(total_score, I(0))
            THEN RMul(RDiv(score, total_score), I(100))
            ELSE I(0), 1)

\* the loop scoring each region: regional_data is the mapping's items in
\* iteration order, <<code, metrics>>
ScoreAll(regional_data) ==
    [i \in 1..Len(regional_data) |->
        score_region(regional_data[i][1],
            Get(regional_data[i][2], "interest_score", I(50)),
            Get(regional_data[i][2], "engagement_rate", I(0)),
            Get(regional_data[i][2], "growth_rate", I(0)),
            Get(regional_data[i][2], "sentiment_score", Rat(1, 2)),
            <<>>).value]

\* an ascending sort followed by a reversal, which turns the ties around
SortByScore_AscendingReversed(scored) ==
    LET asc == StableSort(scored, [i \in 1..Len(scored) |-> [j \in 1..Len(scored) |->
                                     RLt(scored[i].total_score, scored[j].total_score)]])
    IN  [i \in 1..Len(asc) |-> asc[Len(asc) + 1 - i]]

\* scored_regions.sort(key=lambda x: x['total_score'], reverse=True)
SortByScore(scored) ==
    StableSort(scored, Descending([i \in 1..Len(scored) |-> scored[i].total_score]))

\* the loop attaching suggested_budget_pct to each region
WithBudgetPct(sorted) ==
    LET total_score == RSum([i \in 1..Len(sorted) |-> sorted[i].total_score])
    IN  [i \in 1..Len(sorted) |->
            sorted[i] @@ [suggested_budget_pct |->
                SuggestedBudgetPct(sorted[i].total_score, total_score)]]

\* the grouping by tier and the returned dictionary
Comparison(scored_regions) ==
    Return([ranked_regions |-> scored_regions,
            by_tier |-> [t \in {scored_regions[i].tier : i \in 1..Len(scored_regions)} |->
                            OfTier(scored_regions, t)],
            top_5 |-> Take(scored_regions, 5),
            total_regions |-> Len(scored_regions),
            recommendations |-> _generate_rollout_strategy(scored_regions)])

compare_regions(regional_data) ==
    Comparison(WithBudgetPct(SortByScore(ScoreAll(regional_data))))

-----------------------------------------------------------------------------
(* RegionalScorer.suggest_test_markets                                     *)

\* self.BOX_OFFICE_TIERS[name]
TierRegions(name) ==
    BOX_OFFICE_TIERS[CHOOSE i \in 1..Len(BOX_OFFICE_TIERS) : BOX_OFFICE_TIERS[i][1] = name][2]

\* the cap of a budget level that reads 'low' as 3
TestCount_LowIsThree(budget_constraint) ==
    IF budget_constraint = "high" THEN 5 ELSE 3

\* {'low': 2, 'medium': 3, 'high': 5}.get(budget_constraint, 3)
TestCount(budget_constraint) ==
    IF budget_constraint = "low" THEN 2
    ELSE IF budget_constraint = "medium" THEN 3
    ELSE IF budget_constraint = "high" THEN 5
    ELSE 3

TestMarket(region, rationale) == [region |-> region, rationale |-> rationale]

\* the list after the 'US' step
PickUS(all_regions) ==
    IF InList("US", all_regions)
        THEN <<TestMarket("US", "Largest English-speaking market, bellwether")>>
        ELSE <<>>

\* a later step: the first candidate is appended while the cap is not reached
PickFirst(test_markets, candidates, test_count, rationale) ==
    IF candidates # <<>> /\ Len(test_markets) < test_count
        THEN test_markets \o <<TestMarket(candidates[1], rationale)>>
        ELSE test_markets

\* all_regions is a list of region codes
suggest_test_markets(all_regions, budget_constraint) ==
    LET test_count == TestCount(budget_constraint)
        tier_1_2 == SelectSeq(all_regions,
                        LAMBDA r : InList(r, TierRegions("Tier 1") \o TierRegions("Tier 2")))
        emerging == SelectSeq(all_regions, LAMBDA r : InList(r, TierRegions("Emerging")))
    IN  Return(Take(PickFirst(PickFirst(PickUS(all_regions), tier_1_2, test_count,
                                        "Major international market for comparison"),
                              emerging, test_count, "Test emerging market potential"),
                    test_count))

-----------------------------------------------------------------------------
(* datetime: a point in time is a count of ticks, TicksPerDay to the day,  *)
(* from midnight before day 1 of the proleptic Gregorian calendar; a date  *)
(* string is the list of its characters.                                   *)

TicksPerDay == 2

IsLeap(y) == y % 4 = 0 /\ (y % 100 # 0 \/ y % 400 = 0)

DaysInMonth(y, m) ==
    IF m = 2 THEN (IF IsLeap(y) THEN 29 ELSE 28)
    ELSE IF m \in {4, 6, 9, 11} THEN 30 ELSE 31

DaysBeforeYear(y) ==
    (y - 1) * 365 + (y - 1) \div 4 - (y - 1) \div 100 + (y - 1) \div 400

RECURSIVE DaysBeforeMonth(_, _)
DaysBeforeMonth(y, m) ==
    IF m = 1 THEN 0 ELSE DaysBeforeMonth(y, m - 1) + DaysInMonth(y, m - 1)

\* datetime(y, m, d) at midnight
MakeDate(y, m, d) == (DaysBeforeYear(y) + DaysBeforeMonth(y, m) + d) * TicksPerDay

\* the calendar date <<y, m, d>> of a point in time: 400-, 100-, 4- and
\* 1-year cycles of 146097, 36524, 1461 and 365 days
CivilOf(t) ==
    LET n0 == (t \div TicksPerDay) - 1
        n400 == n0 \div 146097
        r400 == n0 % 146097
        n100 == r400 \div 36524
        r100 == r400 % 36524
        n4 == r100 \div 1461
        r4 == r100 % 1461
        n1 == r4 \div 365
        rest == (r4 % 365) + 1
        y == n400 * 400 + 1 + n100 * 100 + n4 * 4 + n1
    IN  IF n1 = 4 \/ n100 = 4 THEN <<y - 1, 12, 31>>
        ELSE LET m == CHOOSE c \in 1..12 :
                          DaysBeforeMonth(y, c) < rest
                          /\ rest <= DaysBeforeMonth(y, c) + DaysInMonth(y, c)
             IN  <<y, m, rest - DaysBeforeMonth(y, m)>>

DigitChars == <<"0", "1", "2", "3", "4", "5", "6", "7", "8", "9">>

IsDigit(c) == InList(c, DigitChars)

DigitValue(c) == (CHOOSE i \in 1..10 : DigitChars[i] = c) - 1

RECURSIVE NumberOf(_)
NumberOf(cs) ==
    IF cs = <<>> THEN 0
    ELSE 10 * NumberOf(SubSeq(cs, 1, Len(cs) - 1)) + DigitValue(cs[Len(cs)])

\* n as k decimal digits, zero padded
RECURSIVE Digits(_, _)
Digits(n, k) ==
    IF k = 0 THEN <<>> ELSE Digits(n \div 10, k - 1) \o <<DigitChars[(n % 10) + 1]>>

\* dt.strftime('%Y-%m-%d')
strftime(t) ==
    LET c == CivilOf(t)
    IN  Digits(c[1], 4) \o <<"-">> \o Digits(c[2], 2) \o <<"-">> \o Digits(c[3], 2)

\* datetime.strptime(s, '%Y-%m-%d'): four year digits, then month and day
\* of one or two digits each, separated by '-'; ValueError otherwise
strptime(s) ==
    LET n == Len(s)
        dashes == {i \in 1..n : s[i] = "-"}
        shaped == /\ n \in 8..10
                  /\ \A i \in 1..n : s[i] = "-" \/ IsDigit(s[i])
                  /\ Cardinality(dashes) = 2
                  /\ 5 \in dashes
                  /\ dashes \cap {7, 8} # {}
                  /\ n - (CHOOSE i \in dashes : i # 5) \in {1, 2}
    IN  IF ~shaped THEN Raise("ValueError")
        ELSE LET p == CHOOSE i \in dashes : i # 5
                 y == NumberOf(SubSeq(s, 1, 4))
                 m == NumberOf(SubSeq(s, 6, p - 1))
                 d == NumberOf(SubSeq(s, p + 1, n))
             IN  IF y >= 1 /\ m \in 1..12 /\ d >= 1 /\ d <= DaysInMonth(y, m)
                    THEN Return(MakeDate(y, m, d))
                    ELSE Raise("ValueError")

\* timedelta(weeks=w), timedelta(days=d)
Weeks(w) == 7 * w * TicksPerDay

Days(d) == d * TicksPerDay

\* timedelta.days
DaysIn(delta) == delta \div TicksPerDay

\* order of str: by character code, a proper prefix first
CharCode(c) == IF c = "-" THEN 45 ELSE 48 + DigitValue(c)

RECURSIVE StrLess(_, _)
StrLess(a, b) ==
    IF b = <<>> THEN FALSE
    ELSE IF a = <<>> THEN TRUE
    ELSE IF Head(a) # Head(b) THEN CharCode(Head(a)) < CharCode(Head(b))
    ELSE StrLess(Tail(a), Tail(b))

-----------------------------------------------------------------------------
(* RolloutPlanner                                                          *)

\* weeks counted inclusively
Phase1Duration_Inclusive(start_date, release_date) ==
    DaysIn(release_date - start_date) \div 7 + 1

\* whole weeks from the campaign start to the release
Phase1Duration(start_date, release_date) ==
    DaysIn(release_date - start_date) \div 7

\* max(1, whole weeks from a later phase's start to the release)
LaterPhaseDuration(phase_start, release_date) ==
    LET w == DaysIn(release_date - phase_start) \div 7
    IN  IF w > 1 THEN w ELSE 1

\* Phase 3 kept when it starts on the release date itself
PhasesFor_Phase3OnRelease(tier_a, tier_b, tier_c, start_date, release_date) ==
    LET phase2_start == start_date + Weeks(2)
        phase3_start == start_date + Weeks(4)
    IN  (IF tier_a # <<>>
           THEN << [phase |-> 1, name |-> "Primary Markets Launch",
                    start_date |-> strftime(start_date),
                    duration_weeks |-> Phase1Duration(start_date, release_date),
                    regions |-> RegionsOf(tier_a), intensity |-> "High",
                    focus |-> "Brand awareness, trailer push, early ticket sales",
                    budget_percentage |-> 50] >>
           ELSE <<>>)
        \o (IF tier_b # <<>>
              THEN << [phase |-> 2, name |-> "Secondary Markets Expansion",
                       start_date |-> strftime(phase2_start),
                       duration_weeks |-> LaterPhaseDuration(phase2_start, release_date),
                       regions |-> RegionsOf(tier_b), intensity |-> "Medium",
                       focus |-> "Leverage primary market success, localized content",
                       budget_percentage |-> 30] >>
              ELSE <<>>)
        \o (IF tier_c # <<>> /\ phase3_start <= release_date
              THEN << [phase |-> 3, name |-> "Tertiary Markets & Long-tail",
                       start_date |-> strftime(phase3_start),
                       duration_weeks |-> LaterPhaseDuration(phase3_start, release_date),
                       regions |-> RegionsOf(tier_c), intensity |-> "Low",
                       focus |-> "Cost-effective digital campaigns, organic growth",
                       budget_percentage |-> 20] >>
              ELSE <<>>)

\* the phases numbered by their place in the list
PhasesFor_NumberedInOrder(tier_a, tier_b, tier_c, start_date, release_date) ==
    LET phase2_start == start_date + Weeks(2)
        phase3_start == start_date + Weeks(4)
        phases ==
            (IF tier_a # <<>>
               THEN << [phase |-> 1, name |-> "Primary Markets Launch",
                        start_date |-> strftime(start_date),
                        duration_weeks |-> Phase1Duration(start_date, release_date),
                        regions |-> RegionsOf(tier_a), intensity |-> "High",
                        focus |-> "Brand awareness, trailer push, early ticket sales",
                        budget_percentage |-> 50] >>
               ELSE <<>>)
            \o (IF tier_b # <<>>
                  THEN << [phase |-> 2, name |-> "Secondary Markets Expansion",
                           start_date |-> strftime(phase2_start),
                           duration_weeks |-> LaterPhaseDuration(phase2_start, release_date),
                           regions |-> RegionsOf(tier_b), intensity |-> "Medium",
                           focus |-> "Leverage primary market success, localized content",
                           budget_percentage |-> 30] >>
                  ELSE <<>>)
            \o (IF tier_c # <<>> /\ phase3_start < release_date
                  THEN << [phase |-> 3, name |-> "Tertiary Markets & Long-tail",
                           start_date |-> strftime(phase3_start),
                           duration_weeks |-> LaterPhaseDuration(phase3_start, release_date),
                           regions |-> RegionsOf(tier_c), intensity |-> "Low",
                           focus |-> "Cost-effective digital campaigns, organic growth",
                           budget_percentage |-> 20] >>
                  ELSE <<>>)
    IN  [i \in 1..Len(phases) |-> [phases[i] EXCEPT !.phase = i]]

\* the shares of the phases present scaled to add up to 100
PhasesFor_SharesRenormalised(tier_a, tier_b, tier_c, start_date, release_date) ==
    LET phase2_start == start_date + Weeks(2)
        phase3_start == start_date + Weeks(4)
        built ==
            (IF tier_a # <<>>
                   THEN << [phase |-> 1, name |-> "Primary Markets Launch",
                            start_date |-> strftime(start_date),
                            duration_weeks |-> Phase1Duration(start_date, release_date),
                            regions |-> RegionsOf(tier_a), intensity |-> "High",
                            focus |-> "Brand awareness, trailer push, early ticket sales",
                            budget_percentage |-> 50] >>
                   ELSE <<>>)
                \o (IF tier_b # <<>>
                      THEN << [phase |-> 2, name |-> "Secondary Markets Expansion",
                               start_date |-> strftime(phase2_start),
                               duration_weeks |-> LaterPhaseDuration(phase2_start, release_date),
                               regions |-> RegionsOf(tier_b), intensity |-> "Medium",
                               focus |-> "Leverage primary market success, localized content",
                               budget_percentage |-> 30] >>
                      ELSE <<>>)
                \o (IF tier_c # <<>> /\ phase3_start < release_date
                      THEN << [phase |-> 3, name |-> "Tertiary Markets & Long-tail",
                               start_date |-> strftime(phase3_start),
                               duration_weeks |-> LaterPhaseDuration(phase3_start, release_date),
                               regions |-> RegionsOf(tier_c), intensity |-> "Low",
                               focus |-> "Cost-effective digital campaigns, organic growth",
                               budget_percentage |-> 20] >>
                      ELSE <<>>)
        total == RSum([i \in 1..Len(built) |-> I(built[i].budget_percentage)]).n
    IN  [i \in 1..Len(built) |-> [built[i] EXCEPT !.budget_percentage = (@ * 100) \div total]]

\* the phases list built from the three tier groups
PhasesFor(tier_a, tier_b, tier_c, start_date, release_date) ==
    LET phase2_start == start_date + Weeks(2)
        phase3_start == start_date + Weeks(4)
    IN  (IF tier_a # <<>>
           THEN << [phase |-> 1, name |-> "Primary Markets Launch",
                    start_date |-> strftime(start_date),
                    duration_weeks |-> Phase1Duration(start_date, release_date),
                    regions |-> RegionsOf(tier_a), intensity |-> "High",
                    focus |-> "Brand awareness, trailer push, early ticket sales",
                    budget_percentage |-> 50] >>
           ELSE <<>>)
        \o (IF tier_b # <<>>
              THEN << [phase |-> 2, name |-> "Secondary Markets Expansion",
                       start_date |-> strftime(phase2_start),
                       duration_weeks |-> LaterPhaseDuration(phase2_start, release_date),
                       regions |-> RegionsOf(tier_b), intensity |-> "Medium",
                       focus |-> "Leverage primary market success, localized content",
                       budget_percentage |-> 30] >>
              ELSE <<>>)
        \o (IF tier_c # <<>> /\ phase3_start < release_date
              THEN << [phase |-> 3, name |-> "Tertiary Markets & Long-tail",
                       start_date |-> strftime(phase3_start),
                       duration_weeks |-> LaterPhaseDuration(phase3_start, release_date),
                       regions |-> RegionsOf(tier_c), intensity |-> "Low",
                       focus |-> "Cost-effective digital campaigns, organic growth",
                       budget_percentage |-> 20] >>
              ELSE <<>>)

\* each phase listing the leading region of its tier alone
_create_phases_LeadRegionOnly(ranked_regions, start_date, release_date) ==
    PhasesFor(Take(OfTier(ranked_regions, "A"), 1), Take(OfTier(ranked_regions, "B"), 1),
              Take(OfTier(ranked_regions, "C"), 1), start_date, release_date)

\* the long tail taking the D-tier regions along with the C-tier ones
_create_phases_LongTail(ranked_regions, start_date, release_date) ==
    PhasesFor(OfTier(ranked_regions, "A"), OfTier(ranked_regions, "B"),
              SelectSeq(ranked_regions, LAMBDA r : r.tier \in {"C", "D"}),
              start_date, release_date)

_create_phases(ranked_regions, start_date, release_date) ==
    PhasesFor(OfTier(ranked_regions, "A"), OfTier(ranked_regions, "B"),
              OfTier(ranked_regions, "C"), start_date, release_date)

\* the suggested percentages taken as they are, not against their sum
_allocate_budget_Unnormalised(ranked_regions, total_budget) ==
    LET total_pct == RSum([i \in 1..Len(ranked_regions) |->
                             ranked_regions[i].suggested_budget_pct])
        alloc(r) ==
            LET pct == IF RGt(total_pct, I(0))
                          THEN r.suggested_budget_pct
                          ELSE I(0)
                amount == RMul(RDiv(pct, I(100)), total_budget)
            IN  [region |-> r.region, budget_amount |-> Round(amount, 2),
                 percentage |-> Round(pct, 2), tier |-> r.tier,
                 justification |-> r.recommendation]
        allocations == [i \in 1..Len(ranked_regions) |-> alloc(ranked_regions[i])]
    IN  StableSort(allocations, Descending([i \in 1..Len(allocations) |-> allocations[i].budget_amount]))

_allocate_budget(ranked_regions, total_budget) ==
    LET total_pct == RSum([i \in 1..Len(ranked_regions) |->
                             ranked_regions[i].suggested_budget_pct])
        alloc(r) ==
            LET pct == IF RGt(total_pct, I(0))
                          THEN RMul(RDiv(r.suggested_budget_pct, total_pct), I(100))
                          ELSE I(0)
                amount == RMul(RDiv(pct, I(100)), total_budget)
            IN  [region |-> r.region, budget_amount |-> Round(amount, 2),
                 percentage |-> Round(pct, 2), tier |-> r.tier,
                 justification |-> r.recommendation]
        allocations == [i \in 1..Len(ranked_regions) |-> alloc(ranked_regions[i])]
    IN  StableSort(allocations, Descending([i \in 1..Len(allocations) |-> allocations[i].budget_amount]))

\* the buckets taken with > in place of >=
_get_weekly_activities_Exclusive(weeks_to_release) ==
    IF weeks_to_release > 6
        THEN <<"Launch teaser campaign", "Build social media presence", "Secure media partnerships">>
    ELSE IF weeks_to_release > 4
        THEN <<"Release official trailer", "Start paid social campaigns", "Begin PR tour">>
    ELSE IF weeks_to_release > 2
        THEN <<"Intensify digital ads", "Launch ticket pre-sales", "Host premiere events">>
    ELSE <<"Final push - all channels", "Leverage reviews & testimonials", "Drive ticket sales">>

_get_weekly_activities(weeks_to_release) ==
    IF weeks_to_release >= 6
        THEN <<"Launch teaser campaign", "Build social media presence", "Secure media partnerships">>
    ELSE IF weeks_to_release >= 4
        THEN <<"Release official trailer", "Start paid social campaigns", "Begin PR tour">>
    ELSE IF weeks_to_release >= 2
        THEN <<"Intensify digital ads", "Launch ticket pre-sales", "Host premiere events">>
    ELSE <<"Final push - all channels", "Leverage reviews & testimonials", "Drive ticket sales">>

\* a phase staying the active one for the whole of its duration_weeks
ActivePhase_HeldThroughSpan(phases, current) ==
    LET started == {i \in 1..Len(phases) : strptime(phases[i].start_date).value <= current}
        running == {i \in started : current < strptime(phases[i].start_date).value + Days(7 * phases[i].duration_weeks)}
    IN  IF started = {} THEN 0
        ELSE IF running # {} THEN CHOOSE i \in running : \A j \in running : i <= j
        ELSE CHOOSE i \in started : \A j \in started : j <= i

\* the loop over phases stopping at the first phase that has started
ActivePhase_FirstStarted(phases, current) ==
    LET started == {i \in 1..Len(phases) : strptime(phases[i].start_date).value <= current}
    IN  IF started = {} THEN 0 ELSE CHOOSE i \in started : \A j \in started : i <= j

\* the phase the loop over phases leaves in active_phase: the last one in
\* list order whose start date is not after current; 0 when there is none
ActivePhase(phases, current) ==
    LET started == {i \in 1..Len(phases) : strptime(phases[i].start_date).value <= current}
    IN  IF started = {} THEN 0 ELSE CHOOSE i \in started : \A j \in started : j <= i

\* the while loop of _create_timeline from one iteration on
RECURSIVE TimelineFrom(_, _, _, _)
TimelineFrom(phases, current, week, release_date) ==
    IF ~(current < release_date) THEN <<>>
    ELSE LET next == current + Days(7)
             week_end == IF next < release_date THEN next ELSE release_date
             a == ActivePhase(phases, current)
             weeks_to_release == DaysIn(release_date - current) \div 7
         IN  << [week |-> week,
                 start_date |-> strftime(current),
                 end_date |-> strftime(week_end),
                 phase |-> IF a # 0 THEN phases[a].name ELSE "Pre-campaign",
                 active_regions |-> IF a # 0 THEN phases[a].regions ELSE <<>>,
                 key_activities |-> _get_weekly_activities(weeks_to_release),
                 intensity |-> IF a # 0 THEN phases[a].intensity ELSE "Low"] >>
             \o TimelineFrom(phases, week_end, week + 1, release_date)

\* no timeline for a plan without phases
_create_timeline_NoneWithoutPhases(phases, start_date, release_date) ==
    IF phases = <<>> THEN <<>> ELSE TimelineFrom(phases, start_date, 1, release_date)

\* the week counter started at 0
_create_timeline_WeekFromZero(phases, start_date, release_date) ==
    TimelineFrom(phases, start_date, 0, release_date)

_create_timeline(phases, start_date, release_date) ==
    TimelineFrom(phases, start_date, 1, release_date)

_recommend_channels(ranked_regions) ==
    [tier_a_regions |->
        [regions |-> RegionsOf(OfTier(ranked_regions, "A")),
         channels |-> <<"TV spots (prime time)", "YouTube pre-roll", "Instagram/Facebook ads", "Outdoor billboards (major cities)", "Influencer partnerships", "Podcast sponsorships">>,
         investment_level |-> "High"],
     tier_b_regions |->
        [regions |-> RegionsOf(OfTier(ranked_regions, "B")),
         channels |-> <<"Digital video ads", "Social media ads", "Streaming platform ads", "Local radio spots">>,
         investment_level |-> "Medium"],
     tier_c_regions |->
        [regions |-> RegionsOf(OfTier(ranked_regions, "C")),
         channels |-> <<"Social media organic", "Display ads", "Email campaigns", "Search engine marketing">>,
         investment_level |-> "Low-Medium"]]

Milestone(t, name, description) == [date |-> strftime(t), milestone |-> name, description |-> description]

\* a milestone falling on the campaign start itself being kept as well
_generate_milestones_OnOrAfter(start_date, release_date) ==
    LET trailer_date == release_date - Weeks(4)
        presale_date == release_date - Weeks(2)
        premiere_date == release_date - Weeks(1)
        milestones ==
            <<Milestone(start_date, "Campaign Launch", "Teaser release, social media kickoff")>>
            \o (IF trailer_date >= start_date
                  THEN <<Milestone(trailer_date, "Official Trailer Release", "Major media push, paid amplification")>>
                  ELSE <<>>)
            \o (IF presale_date >= start_date
                  THEN <<Milestone(presale_date, "Ticket Pre-Sales Open", "Drive early bookings, create urgency")>>
                  ELSE <<>>)
            \o (IF premiere_date >= start_date
                  THEN <<Milestone(premiere_date, "World Premiere", "Red carpet event, press coverage, reviews")>>
                  ELSE <<>>)
            \o <<Milestone(release_date, "RELEASE DAY", "Full availability, maximize opening weekend")>>
    IN  StableSort(milestones, [i \in 1..Len(milestones) |-> [j \in 1..Len(milestones) |->
                                       StrLess(milestones[i].date, milestones[j].date)]])

_generate_milestones(start_date, release_date) ==
    LET trailer_date == release_date - Weeks(4)
        presale_date == release_date - Weeks(2)
        premiere_date == release_date - Weeks(1)
        milestones ==
            <<Milestone(start_date, "Campaign Launch", "Teaser release, social media kickoff")>>
            \o (IF trailer_date > start_date
                  THEN <<Milestone(trailer_date, "Official Trailer Release", "Major media push, paid amplification")>>
                  ELSE <<>>)
            \o (IF presale_date > start_date
                  THEN <<Milestone(presale_date, "Ticket Pre-Sales Open", "Drive early bookings, create urgency")>>
                  ELSE <<>>)
            \o (IF premiere_date > start_date
                  THEN <<Milestone(premiere_date, "World Premiere", "Red carpet event, press coverage, reviews")>>
                  ELSE <<>>)
            \o <<Milestone(release_date, "RELEASE DAY", "Full availability, maximize opening weekend")>>
    IN  StableSort(milestones, [i \in 1..Len(milestones) |-> [j \in 1..Len(milestones) |->
                                       StrLess(milestones[i].date, milestones[j].date)]])

\* falling back to 30 days from the wall clock
ReleaseDt_ThirtyDays(release_date, now) ==
    LET parsed == strptime(release_date)
    IN  IF parsed.status = "return" THEN parsed.value ELSE now + Days(30)

\* the release date the plan works with: the parsed string, or on any
\* parse error 60 days from the wall clock
ReleaseDt(release_date, now) ==
    LET parsed == strptime(release_date)
    IN  IF parsed.status = "return" THEN parsed.value ELSE now + Days(60)

\* the campaign length taken as days, timedelta(days=campaign_weeks)
PlanFrom_DaysForWeeks(comparison, release_date, budget_total, campaign_weeks, release_dt) ==
    LET ranked_regions == comparison.ranked_regions
        campaign_start == release_dt - Days(campaign_weeks)
        phases == _create_phases(ranked_regions, campaign_start, release_dt)
    IN  Return([campaign_overview |->
                    [release_date |-> release_date,
                     campaign_start |-> strftime(campaign_start),
                     duration_weeks |-> campaign_weeks,
                     total_budget |-> budget_total,
                     target_regions |-> Len(ranked_regions)],
                phases |-> phases,
                budget_allocation |-> _allocate_budget(ranked_regions, budget_total),
                timeline |-> _create_timeline(phases, campaign_start, release_dt),
                channel_strategy |-> _recommend_channels(ranked_regions),
                key_milestones |-> _generate_milestones(campaign_start, release_dt),
                recommendations |-> comparison.recommendations])

\* the plan built from the comparison and the release date in use
PlanFrom(comparison, release_date, budget_total, campaign_weeks, release_dt) ==
    LET ranked_regions == comparison.ranked_regions
        campaign_start == release_dt - Weeks(campaign_weeks)
        phases == _create_phases(ranked_regions, campaign_start, release_dt)
    IN  Return([campaign_overview |->
                    [release_date |-> release_date,
                     campaign_start |-> strftime(campaign_start),
                     duration_weeks |-> campaign_weeks,
                     total_budget |-> budget_total,
                     target_regions |-> Len(ranked_regions)],
                phases |-> phases,
                budget_allocation |-> _allocate_budget(ranked_regions, budget_total),
                timeline |-> _create_timeline(phases, campaign_start, release_dt),
                channel_strategy |-> _recommend_channels(ranked_regions),
                key_milestones |-> _generate_milestones(campaign_start, release_dt),
                recommendations |-> comparison.recommendations])

\* now is what datetime.now() reads during the call
create_rollout_plan(regional_data, release_date, budget_total, campaign_weeks, now) ==
    PlanFrom(compare_regions(regional_data).value, release_date, budget_total,
             campaign_weeks, ReleaseDt(release_date, now))

-----------------------------------------------------------------------------
(* Inputs of score_region                                                  *)

ScoreRegionCodes == {"US", "CN", "JP", "GB", "AU", "IN", "NL", "ZZ"}

\* interest_score: the valid range is [0, 100]
InterestScores == {I(0), I(50), I(90), Rat(9001, 100), I(95), I(100)}

\* engagement_rate: the valid range is [0, 1]
EngagementRates == {I(0), Rat(8, 100), Rat(831, 10000), Rat(1, 2), I(1)}

\* growth_rate: any sign
GrowthRates == {Rat(-1, 10), I(0), Rat(5, 100), Rat(12, 100), Rat(2, 10),
                Rat(31, 100)}

\* sentiment_score: the valid range is [0, 1]
SentimentScores == {I(0), Rat(1, 2), Rat(85, 100), I(1)}

\* custom_factors: None, or the values of a mapping
CustomFactorSets == {<<>>, <<I(15)>>, <<I(5), Rat(5, 2)>>, <<I(-100)>>,
                     <<I(-150), I(50)>>}

ValidMetrics(a) ==
    /\ RLe(I(0), a.interest_score) /\ RLe(a.interest_score, I(100))
    /\ RLe(I(0), a.engagement_rate) /\ RLe(a.engagement_rate, I(1))
    /\ RLe(I(0), a.sentiment_score) /\ RLe(a.sentiment_score, I(1))

-----------------------------------------------------------------------------
(* Inputs of compare_regions                                               *)

RegionCodes == <<"US", "NL", "IN", "ZZ", "GB", "BR">>

\* per-region metric mappings; a missing key takes score_region's default
NoMetrics == [k \in {} |-> I(0)]

HighMetrics == [interest_score |-> I(95), engagement_rate |-> Rat(1, 2), growth_rate |-> Rat(2, 10), sentiment_score |-> Rat(85, 100)]

MidMetrics == [interest_score |-> I(72), engagement_rate |-> Rat(12, 100), growth_rate |-> Rat(35, 100), sentiment_score |-> Rat(78, 100)]

MetricProfiles == {NoMetrics, HighMetrics, MidMetrics}

\* the mappings over the region codes cs (a list), iterated in that order
RECURSIVE ItemsOver(_)
ItemsOver(cs) ==
    IF cs = <<>> THEN {<<>>}
    ELSE {<< <<Head(cs), m>> >> \o rest : m \in MetricProfiles, rest \in ItemsOver(Tail(cs))}

\* the sub-lists of cs, order kept
RECURSIVE SubLists(_)
SubLists(cs) ==
    IF cs = <<>> THEN {<<>>}
    ELSE LET rest == SubLists(Tail(cs))
         IN  rest \cup {<<Head(cs)>> \o r : r \in rest}

\* the lists of up to k distinct codes out of cs, in every order
RECURSIVE Arrangements(_, _)
Arrangements(cs, k) ==
    IF k = 0 THEN {<<>>}
    ELSE LET shorter == Arrangements(cs, k - 1)
         IN  shorter \cup {a \o <<cs[i]>> : a \in shorter, i \in 1..Len(cs)}

Distinct(s) == \A i, j \in 1..Len(s) : i # j => s[i] # s[j]

MaxPermuted == 3

\* metrics outside their valid ranges: a region of 8 market-size points
\* scores exactly 0 with the first and every region scores below 0 with
\* the second
ZeroScoreMetrics == [interest_score |-> I(-60), engagement_rate |-> I(0), growth_rate |-> Rat(12, 100), sentiment_score |-> I(0)]

NegativeMetrics == [interest_score |-> I(-100), engagement_rate |-> I(0), growth_rate |-> I(0), sentiment_score |-> I(0)]

DegenerateProfiles == {NoMetrics, ZeroScoreMetrics, NegativeMetrics}

DegenerateCodes == <<"NL", "ZZ", "IN">>

\* the mappings over the region codes cs with metrics out of profiles
RECURSIVE ItemsWith(_, _)
ItemsWith(cs, profiles) ==
    IF cs = <<>> THEN {<<>>}
    ELSE {<< <<Head(cs), m>> >> \o rest : m \in profiles, rest \in ItemsWith(Tail(cs), profiles)}

\* mappings whose scores sum to zero, below zero or just above
DegenerateInputs ==
    UNION {ItemsWith(cs, DegenerateProfiles) : cs \in SubLists(DegenerateCodes)}

\* mappings of any size in table order, short ones in every order, and the
\* degenerate ones
CompareInputs ==
    UNION {ItemsOver(cs) : cs \in SubLists(RegionCodes) \cup {a \in Arrangements(RegionCodes, MaxPermuted) : Distinct(a)}}
        \cup DegenerateInputs

-----------------------------------------------------------------------------
(* Inputs of create_rollout_plan                                           *)

MaxPlanRegions == 3

MaxCampaignWeeks == 7

PlanDegenerateCodes == <<"NL", "IN">>

\* mappings over the first MaxPlanRegions region codes, in table order, and
\* two regions with metrics out of range (suggested percentages that are
\* all zero, or of both signs)
PlanRegionalData ==
    UNION {ItemsOver(cs) : cs \in SubLists(Take(RegionCodes, MaxPlanRegions))}
        \cup ItemsWith(PlanDegenerateCodes, DegenerateProfiles)

\* "2024-06-15", "2024-3-1", "not-a-date", "2023-02-29"
ReleaseDates ==
    { <<"2", "0", "2", "4", "-", "0", "6", "-", "1", "5">>,
      <<"2", "0", "2", "4", "-", "3", "-", "1">>,
      <<"n", "o", "t", "-", "a", "-", "d", "a", "t", "e">>,
      <<"2", "0", "2", "3", "-", "0", "2", "-", "2", "9">> }

\* wall clock readings: 2026-11-05 past midnight, 2024-01-01 at midnight
Nows == {MakeDate(2026, 11, 5) + 1, MakeDate(2024, 1, 1)}

Budgets == {I(1000000), I(0)}

CampaignWeeks == 0..MaxCampaignWeeks

-----------------------------------------------------------------------------
(* Inputs of suggest_test_markets                                          *)

TestRegionCodes == <<"US", "GB", "CN", "ID", "TR", "IN">>

MaxTestRegions == 3

\* lists of up to MaxTestRegions codes, in every order, repeats allowed
AllRegionsLists == Arrangements(TestRegionCodes, MaxTestRegions)

\* the three budget levels and a value that is none of them
BudgetConstraints == {"low", "medium", "high", "unlimited"}

-----------------------------------------------------------------------------
(* The state machine                                                       *)

Pending == [status |-> "pending"]

\* score_region is about to be called with arguments drawn from the grids
InitScore ==
    /\ call \in [op : {"score_region"}, region_code : ScoreRegionCodes,
                 interest_score : InterestScores,
                 engagement_rate : EngagementRates,
                 growth_rate : GrowthRates,
                 sentiment_score : SentimentScores,
                 custom_factors : CustomFactorSets]
    /\ result = Pending

ScoreRegion ==
    /\ call.op = "score_region"
    /\ result = Pending
    /\ result' = score_region(call.region_code, call.interest_score,
                              call.engagement_rate, call.growth_rate,
                              call.sentiment_score, call.custom_factors)
    /\ UNCHANGED call

SpecScore == InitScore /\ [][ScoreRegion]_vars

\* compare_regions is about to be called on a mapping of regions
InitCompare ==
    /\ call \in [op : {"compare_regions"}, regional_data : CompareInputs]
    /\ result = Pending

CompareRegions ==
    /\ call.op = "compare_regions"
    /\ result = Pending
    /\ result' = compare_regions(call.regional_data)
    /\ UNCHANGED call

SpecCompare == InitCompare /\ [][CompareRegions]_vars

\* create_rollout_plan is about to be called; now is the clock it will
\* read, which it does only when the release date does not parse.  The
\* calls are those with the later reading and the positive budget, on every
\* release date, and besides them the zero budget with the first release
\* date and the earlier reading with the date that holds no digits.
InitPlan ==
    /\ call \in [op : {"create_rollout_plan"}, regional_data : PlanRegionalData,
                 release_date : ReleaseDates, budget_total : Budgets,
                 campaign_weeks : CampaignWeeks, now : Nows]
    /\ call.budget_total = I(0) =>
          call.release_date = <<"2", "0", "2", "4", "-", "0", "6", "-", "1", "5">>
    /\ call.now # MakeDate(2026, 11, 5) + 1 =>
          /\ call.release_date = <<"n", "o", "t", "-", "a", "-", "d", "a", "t", "e">>
          /\ call.budget_total # I(0)
    /\ result = Pending

CreateRolloutPlan ==
    /\ call.op = "create_rollout_plan"
    /\ result = Pending
    /\ result' = create_rollout_plan(call.regional_data, call.release_date,
                                     call.budget_total, call.campaign_weeks, call.now)
    /\ UNCHANGED call

SpecPlan == InitPlan /\ [][CreateRolloutPlan]_vars

\* suggest_test_markets is about to be called on a list of region codes
InitTest ==
    /\ call \in [op : {"suggest_test_markets"}, all_regions : AllRegionsLists,
                 budget_constraint : BudgetConstraints]
    /\ result = Pending

SuggestTestMarkets ==
    /\ call.op = "suggest_test_markets"
    /\ result = Pending
    /\ result' = suggest_test_markets(call.all_regions, call.budget_constraint)
    /\ UNCHANGED call

SpecTest == InitTest /\ [][SuggestTestMarkets]_vars

Init == InitScore \/ InitCompare \/ InitPlan \/ InitTest

Next == ScoreRegion \/ CompareRegions \/ CreateRolloutPlan \/ SuggestTestMarkets

Spec == Init /\ [][Next]_vars

-----------------------------------------------------------------------------
(* Properties                                                              *)

Returned == result.status = "return"

Finished == result.status # "pending"

RSub(a, b) == RAdd(a, [n |-> -b.n, d |-> b.d])

RAbs(a) == [n |-> Abs(a.n), d |-> a.d]

ScoreReturned == call.op = "score_region" /\ Returned

CompareReturned == call.op = "compare_regions" /\ Returned

PlanReturned == call.op = "create_rollout_plan" /\ Returned

ValidReleaseDate == strptime(call.release_date).status = "return"

\* the tiers of the scored regions of a plan, one allocation per region
AllRegionsOfTier(t) ==
    /\ result.value.budget_allocation # <<>>
    /\ \A i \in 1..Len(result.value.budget_allocation) :
          result.value.budget_allocation[i].tier = t

MilestoneNames == [i \in 1..Len(result.value.key_milestones) |-> result.value.key_milestones[i].milestone]

\* C1: for every region code and metrics in their valid ranges, without
\* custom factors, score_region returns 0 <= total_score <= 100.
C1_TotalScoreWithin0And100 ==
    (ScoreReturned /\ ValidMetrics(call) /\ call.custom_factors = <<>>)
        => /\ RLe(I(0), result.value.total_score)
           /\ RLe(result.value.total_score, I(100))

\* the band of a reported score: A >= 80, B in [65, 80), C in [50, 65), D < 50
BandOf(total_score) ==
    IF RGe(total_score, I(80)) THEN "A"
    ELSE IF RGe(total_score, I(65)) THEN "B"
    ELSE IF RGe(total_score, I(50)) THEN "C"
    ELSE "D"

\* C2: every result of score_region carries the tier its reported
\* total_score falls into (A >= 80, B in [65,80), C in [50,65), D < 50).
C2_TierIsBandOfReportedScore ==
    ScoreReturned => result.value.tier = BandOf(result.value.total_score)

BudgetPctSum ==
    RSum([i \in 1..Len(result.value.ranked_regions) |->
            result.value.ranked_regions[i].suggested_budget_pct])

TotalScoreSum ==
    RSum([i \in 1..Len(result.value.ranked_regions) |->
            result.value.ranked_regions[i].total_score])

PositiveRegionSet ==
    /\ CompareReturned
    /\ result.value.ranked_regions # <<>>
    /\ RGt(TotalScoreSum, I(0))

\* C3 as stated: for a non-empty region set with a positive score sum the
\* suggested_budget_pct values sum to 100 within 0.1, whatever the number
\* of regions.
C3_BudgetPctSumWithinTenth ==
    PositiveRegionSet => RLe(RAbs(RSub(BudgetPctSum, I(100))), Rat(1, 10))

\* C3 amended: for a non-empty region set with a positive score sum the
\* suggested_budget_pct values sum to 100 within 0.05 per region.
C3_BudgetPctSumWithinHalfTenthPerRegion ==
    PositiveRegionSet =>
        RLe(RAbs(RSub(BudgetPctSum, I(100))),
            Rat(5 * Len(result.value.ranked_regions), 100))

\* five or more regions whose rounded shares miss 100 by more than 0.1
C3_Witness ==
    /\ PositiveRegionSet
    /\ Len(result.value.ranked_regions) >= 5
    /\ RGt(RAbs(RSub(BudgetPctSum, I(100))), Rat(1, 10))

\* score_region('US', 95, 0.08, 0.12, 0.85)
IsUSScenario ==
    /\ call.op = "score_region"
    /\ call.region_code = "US"
    /\ call.interest_score = I(95)
    /\ call.engagement_rate = Rat(8, 100)
    /\ call.growth_rate = Rat(12, 100)
    /\ call.sentiment_score = Rat(85, 100)
    /\ call.custom_factors = <<>>

USScenarioCommon ==
    /\ result.value.breakdown.interest = Rat(285, 10)
    /\ result.value.breakdown.market_size = I(24)
    /\ result.value.breakdown.engagement = Rat(12, 10)
    /\ result.value.breakdown.sentiment = Rat(1275, 100)
    /\ result.value.market_tier = "Tier 1"

\* C4 as stated: the US scenario yields growth 15, raw_score and
\* total_score 81.45, tier A and the primary-target recommendation.
C4_USScenarioAsStated ==
    (IsUSScenario /\ Finished) =>
        /\ Returned
        /\ USScenarioCommon
        /\ result.value.breakdown.growth = I(15)
        /\ result.value.raw_score = Rat(8145, 100)
        /\ result.value.total_score = Rat(8145, 100)
        /\ result.value.tier = "A"
        /\ result.value.recommendation = "Primary target - allocate 25-35% of budget"

\* C4 amended: the US scenario yields interest 28.5, market_size 24,
\* engagement 1.2, growth 10 and sentiment 12.75, hence raw_score and
\* total_score 76.45, tier B, market_tier 'Tier 1' and the
\* secondary-target recommendation.
C4_USScenario ==
    (IsUSScenario /\ Finished) =>
        /\ Returned
        /\ USScenarioCommon
        /\ result.value.breakdown.growth = I(10)
        /\ result.value.raw_score = Rat(7645, 100)
        /\ result.value.total_score = Rat(7645, 100)
        /\ result.value.tier = "B"
        /\ result.value.recommendation = "Secondary target - allocate 10-20% of budget"

C4_Witness == IsUSScenario /\ Returned

FiveMilestones ==
    <<"Campaign Launch", "Official Trailer Release", "Ticket Pre-Sales Open",
      "World Premiere", "RELEASE DAY">>

\* release 2024-06-15 with a 6 week campaign
IsSpecCase ==
    /\ call.release_date = <<"2", "0", "2", "4", "-", "0", "6", "-", "1", "5">>
    /\ call.campaign_weeks = 6

\* C5: for a region set whose regions are all A-tier, a valid release date
\* and campaign_weeks >= 5, the plan has exactly one phase, Phase 1,
\* starting on campaign_start (2024-05-04 for release 2024-06-15 and 6
\* weeks) with duration_weeks = campaign_weeks, and key_milestones holds
\* all five milestones.
C5_AllATierPlan ==
    (PlanReturned /\ AllRegionsOfTier("A") /\ ValidReleaseDate /\ call.campaign_weeks >= 5)
        => /\ Len(result.value.phases) = 1
           /\ result.value.phases[1].phase = 1
           /\ result.value.phases[1].start_date = result.value.campaign_overview.campaign_start
           /\ result.value.phases[1].start_date =
                 strftime(strptime(call.release_date).value - Weeks(call.campaign_weeks))
           /\ result.value.phases[1].duration_weeks = call.campaign_weeks
           /\ MilestoneNames = FiveMilestones
           /\ IsSpecCase => result.value.campaign_overview.campaign_start
                              = <<"2", "0", "2", "4", "-", "0", "5", "-", "0", "4">>

C5_Witness ==
    /\ PlanReturned
    /\ AllRegionsOfTier("A")
    /\ IsSpecCase
    /\ Len(result.value.phases) = 1

\* C6: for a region set in which every region is D-tier, a valid release
\* date and campaign_weeks >= 1, the plan has zero phases, a non-empty
\* recommendations list and a non-empty timeline whose every week is
\* labelled 'Pre-campaign' with no active regions.
C6_AllDTierPlan ==
    (PlanReturned /\ AllRegionsOfTier("D") /\ ValidReleaseDate /\ call.campaign_weeks >= 1)
        => /\ result.value.phases = <<>>
           /\ result.value.recommendations # <<>>
           /\ result.value.timeline # <<>>
           /\ \A i \in 1..Len(result.value.timeline) :
                 /\ result.value.timeline[i].phase = "Pre-campaign"
                 /\ result.value.timeline[i].active_regions = <<>>

C6_Witness ==
    /\ PlanReturned
    /\ AllRegionsOfTier("D")
    /\ ValidReleaseDate
    /\ call.campaign_weeks >= 1
    /\ Len(result.value.timeline) = call.campaign_weeks

\* C7: compare_regions on an empty mapping returns, without raising, an
\* empty ranked_regions list, no tier groups, an empty top_5,
\* total_regions 0 and an (empty) recommendations list.
C7_CompareEmptyMapping ==
    (call.op = "compare_regions" /\ call.regional_data = <<>> /\ Finished)
        => /\ Returned
           /\ result.value.ranked_regions = <<>>
           /\ DOMAIN result.value.by_tier = {}
           /\ result.value.top_5 = <<>>
           /\ result.value.total_regions = 0
           /\ result.value.recommendations = <<>>

C7_Witness == CompareReturned /\ call.regional_data = <<>>

IsEmptyPlanCall ==
    call.op = "create_rollout_plan" /\ call.regional_data = <<>> /\ Finished

\* C8 as stated: for an empty region set the plan's phases,
\* budget_allocation, timeline and key_milestones are all empty lists.
C8_EmptyRegionSetAllEmpty ==
    IsEmptyPlanCall
        => /\ Returned
           /\ result.value.phases = <<>>
           /\ result.value.budget_allocation = <<>>
           /\ result.value.timeline = <<>>
           /\ result.value.key_milestones = <<>>

\* C8 amended: for an empty region set create_rollout_plan raises nothing;
\* phases and budget_allocation are empty lists, the timeline holds one
\* 'Pre-campaign' entry without active regions per campaign week, and
\* key_milestones holds at least Campaign Launch and Release Day.
C8_EmptyRegionSetPlan ==
    IsEmptyPlanCall
        => /\ Returned
           /\ result.value.phases = <<>>
           /\ result.value.budget_allocation = <<>>
           /\ Len(result.value.timeline) = call.campaign_weeks
           /\ \A i \in 1..Len(result.value.timeline) :
                 /\ result.value.timeline[i].phase = "Pre-campaign"
                 /\ result.value.timeline[i].active_regions = <<>>
           /\ InList("Campaign Launch", MilestoneNames)
           /\ InList("RELEASE DAY", MilestoneNames)

C8_Witness ==
    /\ IsEmptyPlanCall
    /\ Returned
    /\ result.value.timeline # <<>>
    /\ Len(result.value.key_milestones) = 5

\* the release date the fallback stands for: 60 days after the clock reading
FallbackRelease == call.now + Days(60)

\* C9: with a release_date that does not parse as YYYY-MM-DD,
\* create_rollout_plan does not raise and derives campaign_start, the
\* phases, the timeline and the milestones from now + 60 days.
C9_MalformedDateFallsBack ==
    (call.op = "create_rollout_plan" /\ ~ValidReleaseDate /\ Finished)
        => /\ Returned
           /\ result.value.campaign_overview.campaign_start
                 = strftime(FallbackRelease - Weeks(call.campaign_weeks))
           /\ \A i \in 1..Len(result.value.phases) :
                 result.value.phases[i].start_date
                    = strftime(FallbackRelease - Weeks(call.campaign_weeks)
                                 + Weeks(2 * (result.value.phases[i].phase - 1)))
           /\ Len(result.value.timeline) = call.campaign_weeks
           /\ result.value.timeline # <<>> =>
                 /\ result.value.timeline[1].start_date
                       = result.value.campaign_overview.campaign_start
                 /\ result.value.timeline[Len(result.value.timeline)].end_date
                       = strftime(FallbackRelease)
           /\ result.value.key_milestones[1].date
                 = result.value.campaign_overview.campaign_start
           /\ result.value.key_milestones[Len(result.value.key_milestones)]
                 = Milestone(FallbackRelease, "RELEASE DAY", "Full availability, maximize opening weekend")

C9_Witness ==
    /\ PlanReturned
    /\ ~ValidReleaseDate
    /\ result.value.phases # <<>>
    /\ result.value.timeline # <<>>

\* C10: score_region completes without raising for any region code, any
\* numeric metrics and any custom_factors mapping.
C10_ScoreRegionNeverRaises ==
    (call.op = "score_region" /\ Finished) => Returned

\* the release date the plan works with
PlanRelease ==
    IF ValidReleaseDate THEN strptime(call.release_date).value ELSE FallbackRelease

PlanStart == PlanRelease - Weeks(call.campaign_weeks)

SortedByDate(ms) ==
    \A i, j \in 1..Len(ms) : i < j => ~StrLess(ms[j].date, ms[i].date)

\* C11 as stated: every milestone in key_milestones has a date strictly
\* after campaign_start, and the list is sorted ascending by date.
C11_EveryMilestoneAfterStart ==
    PlanReturned =>
        /\ \A i \in 1..Len(result.value.key_milestones) :
              StrLess(result.value.campaign_overview.campaign_start,
                      result.value.key_milestones[i].date)
        /\ SortedByDate(result.value.key_milestones)

\* the milestone of that name, k weeks before the release, is in ms
HasMilestone(ms, name, k) ==
    \E i \in 1..Len(ms) : /\ ms[i].milestone = name
                           /\ ms[i].date = strftime(PlanRelease - Weeks(k))

\* C11 amended: Campaign Launch (at campaign_start) and Release Day (at
\* the release date) are always in key_milestones; Official Trailer
\* Release, Ticket Pre-Sales Open and World Premiere (4, 2 and 1 weeks
\* before the release) are in it exactly when their date is strictly
\* after campaign_start; nothing else is in it, and the list is sorted
\* ascending by date.
C11_MilestonesAfterStart ==
    PlanReturned =>
        LET ms == result.value.key_milestones
            names == {ms[i].milestone : i \in 1..Len(ms)}
        IN  /\ HasMilestone(ms, "Campaign Launch", call.campaign_weeks)
            /\ HasMilestone(ms, "RELEASE DAY", 0)
            /\ "Official Trailer Release" \in names <=> PlanRelease - Weeks(4) > PlanStart
            /\ "Ticket Pre-Sales Open" \in names <=> PlanRelease - Weeks(2) > PlanStart
            /\ "World Premiere" \in names <=> PlanRelease - Weeks(1) > PlanStart
            /\ "Official Trailer Release" \in names => HasMilestone(ms, "Official Trailer Release", 4)
            /\ "Ticket Pre-Sales Open" \in names => HasMilestone(ms, "Ticket Pre-Sales Open", 2)
            /\ "World Premiere" \in names => HasMilestone(ms, "World Premiere", 1)
            /\ Len(ms) = Cardinality(names)
            /\ names \subseteq {FiveMilestones[i] : i \in 1..5}
            /\ SortedByDate(ms)

\* a two week campaign: the pre-sales date falls on campaign_start and is
\* left out, the premiere a week later is kept
C11_Witness ==
    /\ PlanReturned
    /\ call.campaign_weeks = 2
    /\ MilestoneNames = <<"Campaign Launch", "World Premiere", "RELEASE DAY">>

\* where the region code stands in the iteration order of the input mapping
InputIndex(code) ==
    CHOOSE k \in 1..Len(call.regional_data) : call.regional_data[k][1] = code

\* C12: ranked_regions holds the scored input regions in non-increasing
\* order of total_score, and regions with equal total_score keep the order
\* in which the input mapping iterated them.
C12_RankedDescendingStable ==
    CompareReturned =>
        LET rr == result.value.ranked_regions
        IN  /\ Len(rr) = Len(call.regional_data)
            /\ {rr[i].region : i \in 1..Len(rr)}
                  = {call.regional_data[k][1] : k \in 1..Len(call.regional_data)}
            /\ \A i, j \in 1..Len(rr) : i < j =>
                  /\ RGe(rr[i].total_score, rr[j].total_score)
                  /\ rr[i].total_score = rr[j].total_score
                        => InputIndex(rr[i].region) < InputIndex(rr[j].region)

\* two regions tie, and a third, iterated after them, is ranked above both
C12_Witness ==
    /\ CompareReturned
    /\ Len(result.value.ranked_regions) = 3
    /\ result.value.ranked_regions[2].total_score = result.value.ranked_regions[3].total_score
    /\ InputIndex(result.value.ranked_regions[1].region) = 3
    /\ RGt(result.value.ranked_regions[1].total_score, result.value.ranked_regions[2].total_score)

\* C13: when the total_score values of a non-empty region set sum to zero
\* or less, compare_regions returns without a division error and every
\* region's suggested_budget_pct is 0.
C13_NonPositiveSumGivesZeroPct ==
    (call.op = "compare_regions" /\ call.regional_data # <<>> /\ Finished)
        => /\ Returned
           /\ RLe(TotalScoreSum, I(0)) =>
                 \A i \in 1..Len(result.value.ranked_regions) :
                    result.value.ranked_regions[i].suggested_budget_pct = I(0)

\* scores summing below zero although the best region scores above zero
C13_Witness ==
    /\ CompareReturned
    /\ Len(result.value.ranked_regions) >= 2
    /\ RLt(TotalScoreSum, I(0))
    /\ RGt(result.value.ranked_regions[1].total_score, I(0))
    /\ result.value.ranked_regions[1].suggested_budget_pct = I(0)

\* the scores of the regions sum to exactly zero
C13_WitnessZeroSum ==
    /\ CompareReturned
    /\ Len(result.value.ranked_regions) >= 2
    /\ TotalScoreSum = I(0)

\* C14: with custom factors supplied and the metrics in their valid
\* ranges, score_region returns 0 <= total_score <= 100.
C14_CustomTotalScoreWithin0And100 ==
    (ScoreReturned /\ ValidMetrics(call) /\ call.custom_factors # <<>>)
        => /\ RLe(I(0), result.value.total_score)
           /\ RLe(result.value.total_score, I(100))

\* C15: the recommendation of score_region is the first match of: score
\* >= 80 (tier A), primary target; score >= 65 (tier B) in a Tier 1 or
\* Tier 2 market, secondary target; growth_rate > 0.2, emerging
\* opportunity; score >= 50 (tier B or C), standard rollout; otherwise
\* lower priority.  The score is the normalized score the tier is taken
\* from.  A region scoring below 50 with growth_rate > 0.2 is an emerging
\* opportunity.
C15_RecommendationFirstMatch ==
    ScoreReturned =>
        /\ result.value.recommendation =
              IF result.value.tier = "A"
                  THEN "Primary target - allocate 25-35% of budget"
              ELSE IF result.value.tier = "B" /\ result.value.market_tier \in {"Tier 1", "Tier 2"}
                  THEN "Secondary target - allocate 10-20% of budget"
              ELSE IF RGt(call.growth_rate, Rat(2, 10))
                  THEN "Emerging opportunity - test with 5-10% budget"
              ELSE IF result.value.tier \in {"B", "C"}
                  THEN "Standard rollout - organic + targeted ads"
              ELSE "Lower priority - consider later phase"
        /\ (RLt(result.value.total_score, I(50)) /\ RGt(call.growth_rate, Rat(2, 10)))
              => result.value.recommendation = "Emerging opportunity - test with 5-10% budget"

\* a region scoring below 50 with growth above 0.2
C15_Witness ==
    /\ ScoreReturned
    /\ RLt(result.value.total_score, I(50))
    /\ RGt(call.growth_rate, Rat(2, 10))
    /\ result.value.recommendation = "Emerging opportunity - test with 5-10% budget"

\* a region scoring 65 or more outside the Tier 1 and Tier 2 markets, with
\* growth above 0.2
C15_WitnessHighScoreEmerging ==
    /\ ScoreReturned
    /\ result.value.tier = "B"
    /\ result.value.market_tier \notin {"Tier 1", "Tier 2"}
    /\ RGt(call.growth_rate, Rat(2, 10))

\* the ranking the plan is built from
PlanRanked == compare_regions(call.regional_data).value.ranked_regions

\* the tier a phase number stands for
PhaseTier(phase) == IF phase = 1 THEN "A" ELSE IF phase = 2 THEN "B" ELSE "C"

\* C16: in every plan each phase lists exactly the regions of its tier
\* (Phase 1 the A-tier, Phase 2 the B-tier, Phase 3 the C-tier regions) in
\* ranked order, so no phase lists a D-tier region.
C16_PhasesHoldTheirTierOnly ==
    PlanReturned =>
        LET ranked == PlanRanked
        IN  \A i \in 1..Len(result.value.phases) :
                /\ result.value.phases[i].phase \in 1..3
                /\ result.value.phases[i].regions
                      = RegionsOf(OfTier(ranked, PhaseTier(result.value.phases[i].phase)))
                /\ \A k \in 1..Len(ranked) :
                      ranked[k].tier = "D"
                          => ~InList(ranked[k].region, result.value.phases[i].regions)

\* the tiers of the plan's regions, read off the budget allocation
PlanTiers ==
    {result.value.budget_allocation[i].tier : i \in 1..Len(result.value.budget_allocation)}

\* a plan with a D-tier region and a phase of two regions
C16_Witness ==
    /\ PlanReturned
    /\ "D" \in PlanTiers
    /\ \E i \in 1..Len(result.value.phases) : Len(result.value.phases[i].regions) = 2

\* a plan whose regions are of three different tiers
C16_WitnessThreeTiers ==
    /\ PlanReturned
    /\ Cardinality(PlanTiers) = 3

\* C17 as stated: in every returned plan campaign_overview.campaign_start
\* is the date campaign_weeks weeks before campaign_overview.release_date.
C17_StartIsWeeksBeforeOverviewRelease ==
    PlanReturned =>
        /\ strptime(result.value.campaign_overview.release_date).status = "return"
        /\ result.value.campaign_overview.campaign_start
              = strftime(strptime(result.value.campaign_overview.release_date).value
                           - Weeks(call.campaign_weeks))

\* C17 amended: in every returned plan campaign_overview.campaign_start is
\* the date campaign_weeks weeks before the release date the plan works
\* with, unclamped: the parsed release_date or, when it does not parse,
\* now + 60 days, while campaign_overview.release_date is the release_date
\* argument as given.
C17_StartIsWeeksBeforeReleaseInUse ==
    PlanReturned =>
        /\ result.value.campaign_overview.release_date = call.release_date
        /\ result.value.campaign_overview.duration_weeks = call.campaign_weeks
        /\ result.value.campaign_overview.campaign_start = strftime(PlanStart)
        /\ ValidReleaseDate =>
              result.value.campaign_overview.campaign_start
                 = strftime(strptime(result.value.campaign_overview.release_date).value
                              - Weeks(call.campaign_weeks))

\* a campaign start that lies in the past of the wall clock
C17_Witness ==
    /\ PlanReturned
    /\ ValidReleaseDate
    /\ call.campaign_weeks >= 1
    /\ PlanStart < call.now
    /\ result.value.campaign_overview.campaign_start = strftime(PlanStart)

\* the overview carrying a release date that did not parse
C17_WitnessUnparsed ==
    /\ PlanReturned
    /\ ~ValidReleaseDate
    /\ call.campaign_weeks >= 1

LanguageLineTexts == {"Localization priority", "Consider multi-language approach"}

\* the texts of the optional lines the ranking rr calls for, in order
OptionalLineTexts(rr) ==
    (IF OfTier(rr, "A") # <<>> THEN <<"Phase 1 (Week 1-2): Focus on">> ELSE <<>>)
    \o (IF OfTier(rr, "B") # <<>>
          THEN <<"Phase 2 (Week 3-4): Expand to secondary markets">> ELSE <<>>)
    \o (IF \E i \in 1..Len(rr) : RGt(rr[i].breakdown.growth, I(15))
          THEN <<"Monitor high-growth markets">> ELSE <<>>)

\* the recommendations are the optional lines the ranking calls for, in
\* order, then a language-grouping line
LinesAsClaimed(recs, rr) ==
    /\ Len(recs) = Len(OptionalLineTexts(rr)) + 1
    /\ \A i \in 1..Len(OptionalLineTexts(rr)) : recs[i].text = OptionalLineTexts(rr)[i]
    /\ recs[Len(recs)].text \in LanguageLineTexts
    /\ OfTier(rr, "A") # <<>> => recs[1].regions = Take(RegionsOf(OfTier(rr, "A")), 3)
    /\ \A i \in 1..Len(recs) :
          recs[i].text = "Phase 2 (Week 3-4): Expand to secondary markets"
              => recs[i].count = Len(OfTier(rr, "B"))

\* C18 as stated: the recommendations of compare_regions are always the
\* A-tier focus line (iff a region is A-tier, naming the top 3 A-tier
\* codes), the B-tier expansion line (iff a region is B-tier), the
\* high-growth line (iff a growth breakdown exceeds 15) and, last, a
\* language-grouping line.
C18_RecommendationsEndWithLanguageLine ==
    CompareReturned =>
        LinesAsClaimed(result.value.recommendations, result.value.ranked_regions)

\* C18 amended: for a non-empty region set the recommendations are those
\* lines in that order, the language-grouping line last; for an empty
\* region set the list is empty.
C18_RecommendationsInFixedOrder ==
    CompareReturned =>
        IF call.regional_data = <<>>
            THEN result.value.recommendations = <<>>
            ELSE LinesAsClaimed(result.value.recommendations, result.value.ranked_regions)

\* all four lines, with more than three A-tier regions
C18_Witness ==
    /\ CompareReturned
    /\ Len(result.value.recommendations) = 4
    /\ Len(OfTier(result.value.ranked_regions, "A")) > 3
    /\ Len(result.value.recommendations[1].regions) = 3

TestReturned == call.op = "suggest_test_markets" /\ Returned

\* the first code of all_regions that is in codes, as a list of one or none
FirstOf(all_regions, codes) ==
    LET hits == {i \in 1..Len(all_regions) : all_regions[i] \in codes}
    IN  IF hits = {} THEN <<>>
        ELSE <<all_regions[CHOOSE i \in hits : \A j \in hits : i <= j]>>

\* the three picks in priority order, before the cap
PriorityPicks(all_regions) ==
    FirstOf(all_regions, {"US"})
        \o FirstOf(all_regions, {"US", "CN", "GB", "JP", "KR", "FR", "DE", "AU"})
        \o FirstOf(all_regions, {"ID", "TR", "SA", "TH", "PH", "VN"})

TestCap(budget_constraint) ==
    CASE budget_constraint = "low" -> 2
      [] budget_constraint = "medium" -> 3
      [] budget_constraint = "high" -> 5
      [] OTHER -> 3

PhaseNumbers == {result.value.phases[i].phase : i \in 1..Len(result.value.phases)}

\* C20: Phase 1 is present iff a region is A-tier, Phase 2 iff a region is
\* B-tier, Phase 3 iff a region is C-tier and campaign_start + 4 weeks is
\* strictly before the release date; each present phase appears once, in
\* phase order, with budget_percentage 50, 30 or 20 whatever the number of
\* its regions and whichever other phases exist.
C20_PhasePresenceAndBudgetShare ==
    PlanReturned =>
        /\ 1 \in PhaseNumbers <=> "A" \in PlanTiers
        /\ 2 \in PhaseNumbers <=> "B" \in PlanTiers
        /\ 3 \in PhaseNumbers <=> ("C" \in PlanTiers /\ PlanStart + Weeks(4) < PlanRelease)
        /\ PhaseNumbers \subseteq 1..3
        /\ \A i, j \in 1..Len(result.value.phases) :
              i < j => result.value.phases[i].phase < result.value.phases[j].phase
        /\ \A i \in 1..Len(result.value.phases) :
              /\ result.value.phases[i].regions # <<>>
              /\ result.value.phases[i].budget_percentage
                    = IF result.value.phases[i].phase = 1 THEN 50
                      ELSE IF result.value.phases[i].phase = 2 THEN 30 ELSE 20

\* a C-tier region and a campaign of exactly four weeks: Phase 3 would
\* start on the release date and is left out, Phase 2 stands alone
C20_Witness ==
    /\ PlanReturned
    /\ "C" \in PlanTiers
    /\ call.campaign_weeks = 4
    /\ PhaseNumbers = {2}
    /\ result.value.phases[1].budget_percentage = 30

\* Phase 3 alone, with its 20 percent
C20_WitnessPhase3Alone ==
    /\ PlanReturned
    /\ PhaseNumbers = {3}
    /\ result.value.phases[1].budget_percentage = 20

\* C21 as stated: in every plan the phase fields of the phases list are
\* 1, 2, ..., n in list order.
C21_PhaseFieldsCountFromOne ==
    PlanReturned =>
        \A i \in 1..Len(result.value.phases) : result.value.phases[i].phase = i

\* the name of the phase of a number
PhaseName(phase) ==
    IF phase = 1 THEN "Primary Markets Launch"
    ELSE IF phase = 2 THEN "Secondary Markets Expansion"
    ELSE "Tertiary Markets & Long-tail"

\* C21 amended: in every plan the phase fields are the fixed numbers of the
\* tiers' phases (1 for the A-tier, 2 for the B-tier, 3 for the C-tier
\* phase), strictly increasing in list order; they are 1, 2, ..., n exactly
\* when no phase is missing before the last one present.
C21_PhaseFieldsAreTierNumbers ==
    PlanReturned =>
        /\ \A i \in 1..Len(result.value.phases) :
              /\ result.value.phases[i].phase \in 1..3
              /\ result.value.phases[i].name = PhaseName(result.value.phases[i].phase)
              /\ result.value.phases[i].regions # <<>>
              /\ \A k \in 1..Len(result.value.budget_allocation) :
                    InList(result.value.budget_allocation[k].region, result.value.phases[i].regions)
                        => result.value.budget_allocation[k].tier
                              = PhaseTier(result.value.phases[i].phase)
        /\ \A i, j \in 1..Len(result.value.phases) :
              i < j => result.value.phases[i].phase < result.value.phases[j].phase
        /\ (\A i \in 1..Len(result.value.phases) : result.value.phases[i].phase = i)
              <=> PhaseNumbers = 1..Len(result.value.phases)

\* a plan whose only phases are Phase 2 and Phase 3
C21_Witness ==
    /\ PlanReturned
    /\ Len(result.value.phases) = 2
    /\ result.value.phases[1].phase = 2
    /\ result.value.phases[2].phase = 3

\* C22: for a valid release date and campaign_weeks = N >= 0 the timeline
\* has exactly N entries numbered week 1..N in order; entry i starts at
\* campaign_start + 7*(i-1) days, each entry ends where the next starts and
\* the last entry ends on the release date.
C22_TimelineHasOneEntryPerWeek ==
    (call.op = "create_rollout_plan" /\ ValidReleaseDate /\ Finished) =>
        /\ Returned
        /\ Len(result.value.timeline) = call.campaign_weeks
        /\ \A i \in 1..Len(result.value.timeline) :
              /\ result.value.timeline[i].week = i
              /\ result.value.timeline[i].start_date = strftime(PlanStart + Days(7 * (i - 1)))
              /\ i < Len(result.value.timeline) =>
                    result.value.timeline[i].end_date = result.value.timeline[i + 1].start_date
              /\ i = Len(result.value.timeline) =>
                    result.value.timeline[i].end_date = strftime(PlanRelease)

\* the longest campaign of the inputs, with phases
C22_Witness ==
    /\ PlanReturned
    /\ ValidReleaseDate
    /\ call.campaign_weeks = MaxCampaignWeeks
    /\ Len(result.value.timeline) = MaxCampaignWeeks
    /\ result.value.phases # <<>>

\* the phases of the plan that start on or before the date
StartedBy(date) ==
    {i \in 1..Len(result.value.phases) : ~StrLess(date, result.value.phases[i].start_date)}

\* C23: every timeline week records the latest-starting phase of the plan
\* whose start_date is on or before the week's start date, with that
\* phase's name, regions and intensity; it is 'Pre-campaign' with no
\* active regions and intensity Low exactly when no phase has started by
\* then.
C23_WeekRecordsLatestStartedPhase ==
    PlanReturned =>
        \A w \in 1..Len(result.value.timeline) :
            LET week == result.value.timeline[w]
                started == StartedBy(week.start_date)
            IN  /\ started = {} =>
                      /\ week.phase = "Pre-campaign"
                      /\ week.active_regions = <<>>
                      /\ week.intensity = "Low"
                /\ started # {} =>
                      \E i \in started :
                          /\ \A j \in started :
                                ~StrLess(result.value.phases[i].start_date,
                                         result.value.phases[j].start_date)
                          /\ week.phase = result.value.phases[i].name
                          /\ week.active_regions = result.value.phases[i].regions
                          /\ week.intensity = result.value.phases[i].intensity
                /\ week.phase = "Pre-campaign" <=> started = {}

\* a week in which the third phase has taken over from the two before it
C23_Witness ==
    /\ PlanReturned
    /\ Len(result.value.phases) = 3
    /\ \E w \in 1..Len(result.value.timeline) :
          /\ result.value.timeline[w].phase = "Tertiary Markets & Long-tail"
          /\ Cardinality(StartedBy(result.value.timeline[w].start_date)) = 3

\* weeks labelled 'Pre-campaign' followed by weeks of a phase
C23_WitnessPreCampaign ==
    /\ PlanReturned
    /\ result.value.phases # <<>>
    /\ \E w \in 1..Len(result.value.timeline) : result.value.timeline[w].phase = "Pre-campaign"

TeaserChecklist == <<"Launch teaser campaign", "Build social media presence", "Secure media partnerships">>

TrailerChecklist == <<"Release official trailer", "Start paid social campaigns", "Begin PR tour">>

IntensifyChecklist == <<"Intensify digital ads", "Launch ticket pre-sales", "Host premiere events">>

FinalPushChecklist == <<"Final push - all channels", "Leverage reviews & testimonials", "Drive ticket sales">>

\* the place of a checklist in the order teaser, trailer, intensify, final push
ChecklistRank(checklist) ==
    CASE checklist = TeaserChecklist -> 1
      [] checklist = TrailerChecklist -> 2
      [] checklist = IntensifyChecklist -> 3
      [] checklist = FinalPushChecklist -> 4
      [] OTHER -> 0

\* whole weeks from the start of a timeline week to the release
WeeksToRelease(week) == DaysIn(PlanRelease - strptime(week.start_date).value) \div 7

\* C24: each timeline week carries the checklist of its weeks_to_release
\* (>= 6 teaser, 4-5 trailer, 2-3 intensify, below 2 final push); along the
\* timeline the checklists appear in that order without returning to an
\* earlier one, and the last week carries the final-push checklist.
C24_ChecklistsFollowWeeksToRelease ==
    PlanReturned =>
        /\ \A w \in 1..Len(result.value.timeline) :
              result.value.timeline[w].key_activities =
                 IF WeeksToRelease(result.value.timeline[w]) >= 6 THEN TeaserChecklist
                 ELSE IF WeeksToRelease(result.value.timeline[w]) >= 4 THEN TrailerChecklist
                 ELSE IF WeeksToRelease(result.value.timeline[w]) >= 2 THEN IntensifyChecklist
                 ELSE FinalPushChecklist
        /\ \A v, w \in 1..Len(result.value.timeline) :
              v < w => ChecklistRank(result.value.timeline[v].key_activities)
                          <= ChecklistRank(result.value.timeline[w].key_activities)
        /\ result.value.timeline # <<>> =>
              result.value.timeline[Len(result.value.timeline)].key_activities = FinalPushChecklist

\* a timeline that goes through all four checklists
C24_Witness ==
    /\ PlanReturned
    /\ {ChecklistRank(result.value.timeline[w].key_activities) :
           w \in 1..Len(result.value.timeline)} = 1..4

\* the ranked entry of a region
RankedOf(ranked, region) == ranked[CHOOSE i \in 1..Len(ranked) : ranked[i].region = region]

\* 0.005 for each of n figures rounded to 2 decimals
RoundingSlack(n) == Rat(5 * n, 1000)

\* C25: budget_allocation has one entry per scored region, D-tier included;
\* when the suggested percentages sum to more than 0 each entry's percentage
\* is its suggested percentage over that sum times 100, its budget_amount the
\* same share of budget_total, the percentages sum to 100 and the amounts
\* to budget_total up to the rounding to 2 decimals; otherwise every
\* percentage and amount is 0.
C25_BudgetSharesAreNormalised ==
    PlanReturned =>
        LET ranked == PlanRanked
            alloc == result.value.budget_allocation
            total == RSum([i \in 1..Len(ranked) |-> ranked[i].suggested_budget_pct])
            pcts == RSum([i \in 1..Len(alloc) |-> alloc[i].percentage])
            amounts == RSum([i \in 1..Len(alloc) |-> alloc[i].budget_amount])
        IN  /\ Len(alloc) = Len(call.regional_data)
            /\ {alloc[i].region : i \in 1..Len(alloc)} =
                  {call.regional_data[i][1] : i \in 1..Len(call.regional_data)}
            /\ \A i \in 1..Len(alloc) :
                  IF RGt(total, I(0))
                  THEN /\ alloc[i].percentage =
                             Round(RDiv(RMul(RankedOf(ranked, alloc[i].region).suggested_budget_pct, I(100)), total), 2)
                       /\ alloc[i].budget_amount =
                             Round(RMul(RDiv(RankedOf(ranked, alloc[i].region).suggested_budget_pct, total), call.budget_total), 2)
                  ELSE alloc[i].percentage = I(0) /\ alloc[i].budget_amount = I(0)
            /\ RGt(total, I(0)) =>
                  /\ RLe(RAbs(RSub(pcts, I(100))), RoundingSlack(Len(alloc)))
                  /\ RLe(RAbs(RSub(amounts, call.budget_total)), RoundingSlack(Len(alloc)))

\* a positive budget split over three regions, one of them D-tier, with
\* rounded percentages that do not add up to 100 exactly
C25_Witness ==
    /\ PlanReturned
    /\ call.budget_total = I(1000000)
    /\ Len(result.value.budget_allocation) = 3
    /\ \E i \in 1..3 : result.value.budget_allocation[i].tier = "D"
    /\ RSum([i \in 1..3 |-> result.value.budget_allocation[i].percentage]) # I(100)

\* two regions whose suggested percentages are all zero: nothing is
\* allocated out of a positive budget
C25_WitnessZeroSum ==
    /\ PlanReturned
    /\ call.budget_total = I(1000000)
    /\ Len(result.value.budget_allocation) = 2
    /\ \A i \in 1..2 : result.value.budget_allocation[i].percentage = I(0)

\* two regions with suggested percentages of both signs and a positive sum
C25_WitnessMixedSigns ==
    /\ PlanReturned
    /\ call.budget_total = I(1000000)
    /\ \E i \in 1..Len(result.value.budget_allocation) :
          RLt(result.value.budget_allocation[i].budget_amount, I(0))

\* C26: suggest_test_markets never lists the same region twice in its
\* result, for any all_regions list and any budget_constraint.
C26_NoRegionListedTwice ==
    TestReturned =>
        \A i, j \in 1..Len(result.value) :
            i # j => result.value[i].region # result.value[j].region

\* "US" returned twice out of a list that names it once, ahead of another
\* Tier 1/2 region that is never picked
C26_WitnessUSTwice ==
    /\ TestReturned
    /\ call.all_regions = <<"US", "GB">>
    /\ call.budget_constraint = "medium"
    /\ [i \in 1..Len(result.value) |-> result.value[i].region] = <<"US", "US">>

\* C27: for a valid release date and campaign_weeks >= 1 every phase of the
\* plan lies inside the campaign window: its duration_weeks is at least 1,
\* its start_date is on or after campaign_start and strictly before the
\* release date, and start_date plus duration_weeks * 7 days is no later
\* than the release date.
C27_PhasesInsideCampaignWindow ==
    (PlanReturned /\ ValidReleaseDate /\ call.campaign_weeks >= 1) =>
        \A i \in 1..Len(result.value.phases) :
            LET phase == result.value.phases[i]
                start == strptime(phase.start_date).value
            IN  /\ phase.duration_weeks >= 1
                /\ start >= PlanStart
                /\ start < PlanRelease
                /\ start + Days(phase.duration_weeks * 7) <= PlanRelease

\* a one-week campaign whose Phase 2 starts a week after the release
C27_WitnessPhase2AfterRelease ==
    /\ PlanReturned
    /\ call.release_date = <<"2", "0", "2", "4", "-", "0", "6", "-", "1", "5">>
    /\ call.campaign_weeks = 1
    /\ \E i \in 1..Len(result.value.phases) :
          /\ result.value.phases[i].phase = 2
          /\ result.value.phases[i].start_date = <<"2", "0", "2", "4", "-", "0", "6", "-", "2", "2">>
          /\ result.value.phases[i].duration_weeks = 1

\* the same statement for the phases other than Phase 2, and for Phase 2
\* in campaigns of 3 weeks or more
C27_OtherPhasesInsideCampaignWindow ==
    (PlanReturned /\ ValidReleaseDate /\ call.campaign_weeks >= 1) =>
        \A i \in 1..Len(result.value.phases) :
            LET phase == result.value.phases[i]
                start == strptime(phase.start_date).value
            IN  (phase.phase # 2 \/ call.campaign_weeks >= 3) =>
                   /\ phase.duration_weeks >= 1
                   /\ start >= PlanStart
                   /\ start < PlanRelease
                   /\ start + Days(phase.duration_weeks * 7) <= PlanRelease

\* the regions listed by the phases of the plan
RolledOut == UNION {{result.value.phases[i].regions[k] : k \in 1..Len(result.value.phases[i].regions)} : i \in 1..Len(result.value.phases)}

\* C28 as stated: in every plan each region with a positive budget_amount
\* in budget_allocation appears in the regions list of some phase.
C28_FundedRegionsAreRolledOut ==
    PlanReturned =>
        \A i \in 1..Len(result.value.budget_allocation) :
            RGt(result.value.budget_allocation[i].budget_amount, I(0)) =>
                result.value.budget_allocation[i].region \in RolledOut

\* C28: in every plan each region of tier A or B with a positive
\* budget_amount in budget_allocation appears in the regions list of some
\* phase, and so does each such region of tier C when campaign_start + 4
\* weeks is before the release date; D-tier regions, and C-tier regions of
\* a shorter campaign, keep their budget share without being in a phase.
C28_FundedRegionsOfPhasedTiersAreRolledOut ==
    PlanReturned =>
        \A i \in 1..Len(result.value.budget_allocation) :
            (/\ RGt(result.value.budget_allocation[i].budget_amount, I(0))
             /\ \/ result.value.budget_allocation[i].tier \in {"A", "B"}
                \/ /\ result.value.budget_allocation[i].tier = "C"
                   /\ PlanStart + Weeks(4) < PlanRelease)
                => result.value.budget_allocation[i].region \in RolledOut

\* three funded regions: two of one tier in a phase, and a D-tier region
\* in none
C28_Witness ==
    /\ PlanReturned
    /\ Len(result.value.budget_allocation) = 3
    /\ \A i \in 1..3 : RGt(result.value.budget_allocation[i].budget_amount, I(0))
    /\ \E i \in 1..3 :
          /\ result.value.budget_allocation[i].tier = "D"
          /\ result.value.budget_allocation[i].region \notin RolledOut
    /\ \E i \in 1..Len(result.value.phases) : Len(result.value.phases[i].regions) = 2

\* a funded C-tier region of a 4-week campaign, left out with its phase
C28_WitnessShortCampaign ==
    /\ PlanReturned
    /\ call.campaign_weeks = 4
    /\ \E i \in 1..Len(result.value.budget_allocation) :
          /\ result.value.budget_allocation[i].tier = "C"
          /\ RGt(result.value.budget_allocation[i].budget_amount, I(0))
          /\ result.value.budget_allocation[i].region \notin RolledOut

\* the phase's span holds the start of the week: the week starts on or
\* after the phase's start_date and before the end of its duration_weeks
InSpan(week, phase) ==
    /\ strptime(phase.start_date).value <= strptime(week.start_date).value
    /\ strptime(week.start_date).value < strptime(phase.start_date).value + Days(7 * phase.duration_weeks)

\* a phase of the plan other than this one has started, after it, by the
\* start of the week
Overtaken(week, phase) ==
    \E j \in 1..Len(result.value.phases) :
        /\ StrLess(phase.start_date, result.value.phases[j].start_date)
        /\ ~StrLess(week.start_date, result.value.phases[j].start_date)

Contained(regions, active_regions) ==
    \A k \in 1..Len(regions) : \E m \in 1..Len(active_regions) : regions[k] = active_regions[m]

\* C29 as stated: for every timeline week that falls inside a phase's span
\* that phase's regions are contained in the week's active_regions.
C29_PhaseRegionsActiveThroughSpan ==
    PlanReturned =>
        \A w \in 1..Len(result.value.timeline), i \in 1..Len(result.value.phases) :
            InSpan(result.value.timeline[w], result.value.phases[i]) =>
                Contained(result.value.phases[i].regions, result.value.timeline[w].active_regions)

\* C29: for every timeline week that falls inside a phase's span and
\* starts before any later-starting phase of the plan has started, that
\* phase's regions are the week's active_regions; in a week by which a
\* later phase has started none of the phase's regions is in
\* active_regions, so the A-tier regions of Phase 1 leave active_regions
\* once Phase 2 or Phase 3 has started.
C29_PhaseRegionsActiveUntilOvertaken ==
    PlanReturned =>
        \A w \in 1..Len(result.value.timeline), i \in 1..Len(result.value.phases) :
            InSpan(result.value.timeline[w], result.value.phases[i]) =>
                IF Overtaken(result.value.timeline[w], result.value.phases[i])
                THEN \A k \in 1..Len(result.value.phases[i].regions) :
                        ~Contained(<<result.value.phases[i].regions[k]>>, result.value.timeline[w].active_regions)
                ELSE result.value.timeline[w].active_regions = result.value.phases[i].regions

\* a plan of three phases: Phase 1 is active in the first week, and in the
\* last week, still inside the span of Phase 1, only the regions of Phase 3
C29_Witness ==
    /\ PlanReturned
    /\ Len(result.value.phases) = 3
    /\ Len(result.value.timeline) >= 5
    /\ result.value.timeline[1].active_regions = result.value.phases[1].regions
    /\ InSpan(result.value.timeline[5], result.value.phases[1])
    /\ result.value.timeline[5].active_regions = result.value.phases[3].regions

\* the budget_percentage values of the phases of the plan, added up
PhaseShareSum ==
    RSum([i \in 1..Len(result.value.phases) |-> I(result.value.phases[i].budget_percentage)]).n

\* C30 as stated: in every plan with at least one phase the
\* budget_percentage values of its phases sum to 100.
C30_PhaseSharesSumTo100 ==
    (PlanReturned /\ result.value.phases # <<>>) => PhaseShareSum = 100

\* C30: in every plan that contains all three phases the budget_percentage
\* values of its phases sum to 100; in a plan with one or two phases they
\* sum to less than 100 (the fixed shares 50, 30 and 20 of the phases
\* present).
C30_PhaseSharesSumTo100WhenAllPresent ==
    (PlanReturned /\ result.value.phases # <<>>) =>
        IF Len(result.value.phases) = 3
        THEN PhaseShareSum = 100
        ELSE PhaseShareSum \in {20, 30, 50, 70, 80}

\* a plan of all three phases
C30_Witness ==
    /\ PlanReturned
    /\ Len(result.value.phases) = 3
    /\ PhaseShareSum = 100

\* a plan of Phase 1 alone, with half of the shares
C30_WitnessPhase1Alone ==
    /\ PlanReturned
    /\ Len(result.value.phases) = 1
    /\ result.value.phases[1].phase = 1
    /\ PhaseShareSum = 50

=============================================================================
